---- MODULE Spec2Model ----
(***************************************************************************)
(* A model of the rust-blockchain node: the block / chain data model       *)
(* (models/block.rs, models/blockchain.rs), the gossip handlers (p2p.rs)   *)
(* and the event loop (main.rs).                                           *)
(*                                                                         *)
(* Strings that hold hashes are sequences of hexadecimal digits; the empty *)
(* sequence is String::default().  SHA-256 over the JSON encoding is       *)
(* scaled down to a deterministic digest of HashLen digits over Digits    *)
(* that reads every field of the block except hash.                       *)
(***************************************************************************)
EXTENDS Integers, Sequences, FiniteSets, TLC

\* ------------------------------------------------------------------ bounds
\* Longest chain the model lets a node hold, and longest remote chain.
MaxChain == 2
\* Messages the swarm can buffer while the event loop is busy.
MaxInbox == 1
\* Number of hexadecimal digits of a digest (64 in the program).
HashLen == 2
\* The difficulty the node is constructed with (Blockchain::new argument).
Difficulty == 1
\* Chain responses that can wait in the internal channel.
MaxChan == 1

\* -------------------------------------------------------------- data model
\* The hexadecimal digits of the model ('0' is 0).
Digits == {0, 1}
Base == Cardinality(Digits)

RECURSIVE Pow(_, _)
Pow(b, n) == IF n = 0 THEN 1 ELSE b * Pow(b, n - 1)

\* Number of distinct digests.
HashSpace == Pow(Base, HashLen)

\* String::default()
EmptyString == << >>

\* format!("{:x}", result): the digest as HashLen digits, most significant first.
ToHex(v) == [i \in 1..HashLen |-> (v \div Pow(Base, HashLen - i)) % Base]

\* Every string a hash field is given in the model.
HashStrings == {EmptyString} \cup {ToHex(v) : v \in 0..(HashSpace - 1)}

RECURSIVE StrNum(_)
StrNum(s) == IF s = << >> THEN 0 ELSE Base * StrNum(SubSeq(s, 1, Len(s) - 1)) + s[Len(s)]

\* The bytes of a string as they enter the digest ("" differs from "00").
StrVal(s) == IF s = EmptyString THEN 0 ELSE 1 + StrNum(s)

\* transaction.rs: Transaction { sender, receiver, amount }
Transaction(sender, receiver, amount) ==
    [sender |-> sender, receiver |-> receiver, amount |-> amount]

RECURSIVE TxVal(_)
TxVal(txs) == IF txs = << >> THEN 0 ELSE 1 + Head(txs).amount + TxVal(Tail(txs))

\* block.rs: struct Block
Block(index, timestamp, proof_of_work, previous_hash, transactions, hash) ==
    [index |-> index, timestamp |-> timestamp, proof_of_work |-> proof_of_work,
     previous_hash |-> previous_hash, transactions |-> transactions, hash |-> hash]

\* block.rs: Block::generate_block_hash.  The hash field is cleared, the rest
\* is serialised and digested.
generate_block_hash(block) ==
    LET block_data == [block EXCEPT !.hash = EmptyString]
        digest == (3 * block_data.index + 5 * block_data.timestamp
                   + block_data.proof_of_work + 7 * StrVal(block_data.previous_hash)
                   + 2 * TxVal(block_data.transactions)
                   + StrVal(block_data.hash)) % HashSpace
    IN ToHex(digest)

\* str::starts_with(&"0".repeat(n))
StartsWithZeros(s, n) == Len(s) >= n /\ \A i \in 1..n : s[i] = 0

\* block.rs: Block::is_mined
is_mined(block, difficulty) == StartsWithZeros(block.hash, difficulty)

\* Block::new that leaves previous_hash at its default.
NewBlock_default_previous(index, previous_hash, transactions, now) ==
    Block(index, now, 0, EmptyString, transactions, EmptyString)

\* block.rs: Block::new
NewBlock(index, previous_hash, transactions, now) ==
    Block(index, now, 0, previous_hash, transactions, EmptyString)

\* blockchain.rs: the genesis block built by Blockchain::new
GenesisBlock(now) == Block(0, now, 0, EmptyString, << >>, EmptyString)

\* is_block_valid without the previous-hash branch.
is_block_valid_unlinked(block, previous_block) ==
    StartsWithZeros(block.hash, Difficulty)

\* is_block_valid without the difficulty branch.
is_block_valid_any_hash(block, previous_block) ==
    block.previous_hash = previous_block.hash

\* blockchain.rs: Blockchain::is_block_valid.  Only the first two branches
\* return false; the index and hash branches print and fall through to true.
is_block_valid(block, previous_block) ==
    IF block.previous_hash # previous_block.hash THEN FALSE
    ELSE IF ~StartsWithZeros(block.hash, Difficulty) THEN FALSE
    ELSE IF block.index # previous_block.index + 1 THEN TRUE
    ELSE IF generate_block_hash(block) # block.hash THEN TRUE
    ELSE TRUE

\* blockchain.rs: Blockchain::is_chain_valid
is_chain_valid(chain) ==
    \A block_index \in 1..Len(chain) :
        block_index = 1 \/ is_block_valid(chain[block_index], chain[block_index - 1])

\* blockchain.rs: Blockchain::choose_chain.  The result is the chain returned,
\* or panicked when the call ends in panic!("Both chains are invalid").
Returned(blocks) == [panicked |-> FALSE, blocks |-> blocks]
Panicked == [panicked |-> TRUE, blocks |-> << >>]
\* choose_chain that takes a valid remote chain whatever its length.
choose_chain_prefers_remote(local, remote) ==
    LET is_local_valid == is_chain_valid(local)
        is_remote_valid == is_chain_valid(remote)
    IN  IF is_remote_valid THEN Returned(remote)
        ELSE IF is_local_valid THEN Returned(local)
        ELSE Panicked

choose_chain_ties_to_remote(local, remote) ==
    LET is_local_valid == is_chain_valid(local)
        is_remote_valid == is_chain_valid(remote)
    IN  IF is_local_valid /\ is_remote_valid
        THEN IF Len(local) > Len(remote) THEN Returned(local) ELSE Returned(remote)
        ELSE IF ~is_local_valid /\ is_remote_valid THEN Returned(remote)
        ELSE IF is_local_valid /\ ~is_remote_valid THEN Returned(local)
        ELSE Panicked

choose_chain(local, remote) ==
    LET is_local_valid == is_chain_valid(local)
        is_remote_valid == is_chain_valid(remote)
    IN  IF is_local_valid /\ is_remote_valid
        THEN IF Len(local) >= Len(remote) THEN Returned(local) ELSE Returned(remote)
        ELSE IF ~is_local_valid /\ is_remote_valid THEN Returned(remote)
        ELSE IF is_local_valid /\ ~is_remote_valid THEN Returned(local)
        ELSE Panicked

\* try_to_add_a_block that pushes the block without validating it.
try_to_add_a_block_unchecked(chain, block) == Append(chain, block)

\* try_to_add_a_block validating against the first block instead of the tip.
try_to_add_a_block_from_genesis(chain, block) ==
    IF is_block_valid(block, chain[1]) THEN Append(chain, block) ELSE chain

\* blockchain.rs: Blockchain::try_to_add_a_block, the chain it leaves.
try_to_add_a_block(chain, block) ==
    LET last_block == chain[Len(chain)]
    IN  IF is_block_valid(block, last_block) THEN Append(chain, block) ELSE chain

\* ----------------------------------------------------------- log lines
\* The classes of lines the node prints; log holds the last one printed
\* while the current event is handled.
NoLine == "none"

\* The last line printed once is_block_valid(block, previous_block) returns.
block_log(block, previous_block, before) ==
    IF block.previous_hash # previous_block.hash THEN "wrong previous hash"
    ELSE IF ~StartsWithZeros(block.hash, Difficulty) THEN before
    ELSE IF block.index # previous_block.index + 1 THEN "not the next block"
    ELSE IF generate_block_hash(block) # block.hash THEN "invalid hash"
    ELSE before

\* The last line printed once try_to_add_a_block(block) returns.
try_log(chain, block, before) ==
    IF is_block_valid(block, chain[Len(chain)])
    THEN block_log(block, chain[Len(chain)], before)
    ELSE "Could not add block"

\* The last line printed once is_chain_valid(chain) returns (the loop stops
\* at the first block that is not valid).
RECURSIVE chain_log(_, _, _)
chain_log(chain, block_index, before) ==
    IF block_index > Len(chain) THEN before
    ELSE LET line == block_log(chain[block_index], chain[block_index - 1], before)
         IN  IF is_block_valid(chain[block_index], chain[block_index - 1])
             THEN chain_log(chain, block_index + 1, line)
             ELSE line

\* ------------------------------------------------------- the environment
\* p2p.rs: PEER_ID, and the identifiers of the other peers.
Self == "self"
OtherPeers == {"p1"}
PeerIds == {Self} \cup OtherPeers

\* Values of Utc::now().timestamp_millis().
TimeStamps == {0}
\* Block fields a peer can put on the wire.
Indexes == 0..MaxChain
Pows == {0}
TxLists == {<< >>, << Transaction("a", "b", 10) >>}

\* Every block a peer can announce: any field is under the peer's control.
NetBlocks ==
    [index : Indexes, timestamp : TimeStamps, proof_of_work : Pows,
     previous_hash : HashStrings, transactions : TxLists, hash : HashStrings]

\* The blocks of the chains a peer can send in a ChainResponse.
SyncStrings == {EmptyString, ToHex(0)}
SyncBlocks ==
    {b \in NetBlocks : /\ b.index \in {0, 1}
                       /\ b.transactions = << >>
                       /\ b.previous_hash \in SyncStrings
                       /\ b.hash \in SyncStrings}
RemoteChains == UNION {[1..n -> SyncBlocks] : n \in 0..MaxChain}

\* The gossip messages, as the handler's schema probing tells them apart.
BlockMsg(block, source) == [kind |-> "block", block |-> block, source |-> source]
ChainResponse(blocks, receiver, source) ==
    [kind |-> "resp", blocks |-> blocks, receiver |-> receiver, source |-> source]
LocalChainRequest(from_peer_id, source) ==
    [kind |-> "req", from_peer_id |-> from_peer_id, source |-> source]
NoEvent == [kind |-> "none"]

\* What the swarm buffers of a message until inject_event deserialises it.
Kinds == {"resp", "req", "mined", "unmined"}
Payloads(kind) ==
    CASE kind = "resp" ->
            {ChainResponse(c, r, s) : c \in RemoteChains, r \in PeerIds, s \in OtherPeers}
      [] kind = "req" ->
            {LocalChainRequest(p, s) : p \in PeerIds, s \in OtherPeers}
      [] kind = "mined" ->
            {BlockMsg(b, s) : b \in {x \in NetBlocks : is_mined(x, Difficulty)},
                              s \in OtherPeers}
      [] kind = "unmined" ->
            {BlockMsg(b, s) : b \in {x \in NetBlocks : ~is_mined(x, Difficulty)},
                              s \in OtherPeers}

\* ------------------------------------------------------------------ state
VARIABLES
    chain,          \* blockchain.chain
    mining,         \* BlockchainBehaviour.mining
    pc,             \* where the event loop is: idle, inject, mine, publish, append
    evt,            \* the floodsub message inject_event is handling
    cand,           \* the block the unmined branch is mining
    inbox,          \* kinds of the messages the swarm has buffered, oldest first
    response_chan,  \* the response_sender / response_rcv channel
    outbox,         \* messages given to floodsub.publish while handling the event
    log,            \* last line printed while handling the event
    init_pending,   \* the one-shot init event has not been handled yet
    panicked,       \* the process has panicked
    cancelSeen,     \* a mined announcement arrived during the running search
    extraAttempts,  \* hash attempts made since that arrival
    input,          \* the arguments a call was started with (SpecChoose only)
    overtaken,      \* an unmined announcement arrived during the running search
    peer_chain,     \* SpecNet: blockchain.chain of every node
    peer_mining,    \* SpecNet: the mining flag of every node
    peer_block,     \* SpecNet: the block a node's unmined branch is mining
    peer_inbox,     \* SpecNet: the announcements floodsub holds for every node
    created         \* SpecNet: create-block commands issued so far

\* The state of the network of nodes (SpecNet).
netvars == << peer_chain, peer_mining, peer_block, peer_inbox, created >>

\* The state of the node (Spec, SpecChoose, SpecAnnounce).
nodevars == << chain, mining, pc, evt, cand, inbox, response_chan, outbox, log,
               init_pending, panicked, cancelSeen, extraAttempts, input, overtaken >>

vars == << nodevars, netvars >>

NoBlock == [kind |-> "none"]
NoInput == [kind |-> "none"]

\* The node is looked at on its own: no network of nodes is modelled.
NoNet ==
    /\ peer_chain = << >>
    /\ peer_mining = << >>
    /\ peer_block = << >>
    /\ peer_inbox = << >>
    /\ created = 0

\* main.rs: the state when the event loop is entered.
Init ==
    /\ chain \in {<< GenesisBlock(now) >> : now \in TimeStamps}
    /\ mining = FALSE
    /\ pc = "idle"
    /\ evt = NoEvent
    /\ cand = NoBlock
    /\ inbox = << >>
    /\ response_chan = << >>
    /\ outbox = << >>
    /\ log = NoLine
    /\ init_pending = TRUE
    /\ panicked = FALSE
    /\ cancelSeen = FALSE
    /\ extraAttempts = 0
    /\ input = NoInput
    /\ overtaken = FALSE
    /\ NoNet

\* ---------------------------------------------------------------- actions
\* A peer's message reaches the node: the swarm buffers it until it is polled.
\* An arrival during one of the handler's other steps is the same arrival
\* right after it.
Arrive(kind) ==
    /\ ~panicked
    /\ pc \in {"idle", "mine"}
    /\ Len(inbox) < MaxInbox
    /\ inbox' = Append(inbox, kind)
    /\ cancelSeen' = IF /\ kind = "mined"
                        /\ pc = "mine"
                        /\ mining
                        /\ ~is_mined(cand, Difficulty)
                     THEN TRUE
                     ELSE cancelSeen
    /\ overtaken' = IF /\ kind = "unmined"
                       /\ pc = "mine"
                       /\ mining
                       /\ ~is_mined(cand, Difficulty)
                    THEN TRUE
                    ELSE overtaken
    /\ UNCHANGED << chain, mining, pc, evt, cand, response_chan, outbox, log,
                    init_pending, panicked, extraAttempts, input, netvars >>

\* The handler of message m can run within the bounds of the model.
Fits(m) ==
    CASE m.kind = "block" ->
            \/ chain = << >>
            \/ Len(chain) < MaxChain
            \/ m.block.previous_hash # chain[Len(chain)].hash
      [] m.kind = "req" -> m.from_peer_id # Self \/ Len(response_chan) < MaxChan
      [] OTHER -> TRUE

\* main.rs: select! polls the swarm, which hands the oldest buffered message
\* to inject_event(FloodsubEvent).
RecvNet ==
    /\ ~panicked
    /\ pc = "idle"
    /\ inbox # << >>
    /\ \E m \in Payloads(Head(inbox)) : Fits(m) /\ evt' = m
    /\ inbox' = Tail(inbox)
    /\ pc' = "inject"
    /\ outbox' = << >>
    /\ log' = NoLine
    /\ UNCHANGED << chain, mining, cand, response_chan, init_pending, panicked,
                    cancelSeen, extraAttempts, input, overtaken, netvars >>

\* p2p.rs: inject_event(FloodsubEvent), the ChainResponse branch.
InjectChainResponse ==
    /\ ~panicked
    /\ pc = "inject"
    /\ evt.kind = "resp"
    /\ LET chosen == choose_chain(chain, evt.blocks)
           printed == IF evt.blocks = << >> THEN "response from" ELSE "block"
       IN  IF evt.receiver = Self
           THEN IF chosen.panicked
                THEN /\ panicked' = TRUE
                     /\ log' = "Both chains are invalid"
                     /\ UNCHANGED << chain, pc, evt >>
                ELSE /\ chain' = chosen.blocks
                     /\ log' = chain_log(evt.blocks, 2,
                                         chain_log(chain, 2, printed))
                     /\ pc' = "idle"
                     /\ evt' = NoEvent
                     /\ UNCHANGED panicked
           ELSE /\ pc' = "idle"
                /\ evt' = NoEvent
                /\ UNCHANGED << chain, log, panicked >>
    /\ UNCHANGED << mining, cand, inbox, response_chan, outbox, init_pending,
                    cancelSeen, extraAttempts, input, overtaken, netvars >>

\* The LocalChainRequest branch without the test of from_peer_id.
InjectChainRequest_answers_all ==
    /\ ~panicked
    /\ pc = "inject"
    /\ evt.kind = "req"
    /\ log' = "sending local chain to"
    /\ response_chan' =
          IF Len(response_chan) < MaxChan
          THEN Append(response_chan, [blocks |-> chain, receiver |-> evt.source])
          ELSE response_chan
    /\ pc' = "idle"
    /\ evt' = NoEvent
    /\ UNCHANGED << chain, mining, cand, inbox, outbox, init_pending, panicked,
                    cancelSeen, extraAttempts, input, overtaken, netvars >>

\* p2p.rs: inject_event(FloodsubEvent), the LocalChainRequest branch.
InjectChainRequest ==
    /\ ~panicked
    /\ pc = "inject"
    /\ evt.kind = "req"
    /\ log' = "sending local chain to"
    /\ response_chan' =
          IF evt.from_peer_id = Self
          THEN Append(response_chan, [blocks |-> chain, receiver |-> evt.source])
          ELSE response_chan
    /\ pc' = "idle"
    /\ evt' = NoEvent
    /\ UNCHANGED << chain, mining, cand, inbox, outbox, init_pending, panicked,
                    cancelSeen, extraAttempts, input, overtaken, netvars >>

\* p2p.rs: inject_event(FloodsubEvent), the Block branch when is_mined holds.
InjectMinedBlock ==
    /\ ~panicked
    /\ pc = "inject"
    /\ evt.kind = "block"
    /\ is_mined(evt.block, Difficulty)
    /\ mining' = FALSE
    /\ IF chain = << >>
       THEN /\ panicked' = TRUE
            /\ log' = "There should be at least one block"
            /\ UNCHANGED << chain, pc, evt >>
       ELSE /\ chain' = try_to_add_a_block(chain, evt.block)
            /\ log' = try_log(chain, evt.block, "received new block from")
            /\ pc' = "idle"
            /\ evt' = NoEvent
            /\ UNCHANGED panicked
    /\ UNCHANGED << cand, inbox, response_chan, outbox, init_pending,
                    cancelSeen, extraAttempts, input, overtaken, netvars >>

\* p2p.rs: inject_event(FloodsubEvent), the Block branch when is_mined fails:
\* the flag is set and Block::mine is entered on a clone of the block.
InjectUnminedBlock ==
    /\ ~panicked
    /\ pc = "inject"
    /\ evt.kind = "block"
    /\ ~is_mined(evt.block, Difficulty)
    /\ mining' = TRUE
    /\ cand' = evt.block
    /\ pc' = "mine"
    /\ evt' = NoEvent
    /\ log' = "received new block from"
    /\ cancelSeen' = FALSE
    /\ extraAttempts' = 0
    /\ overtaken' = FALSE
    /\ UNCHANGED << chain, inbox, response_chan, outbox, init_pending, panicked, input, netvars >>

\* An attempt that leaves the hash of the previous attempt in place.
Attempt_stale_hash(block) == [block EXCEPT !.proof_of_work = @ + 1]

\* block.rs: one attempt of Block::mine on block.
Attempt(block) ==
    LET next == [block EXCEPT !.proof_of_work = @ + 1]
    IN  [next EXCEPT !.hash = generate_block_hash(next)]

\* Block::mine returning at once, whatever the hash of the block.
MineStep_gives_up ==
    /\ ~panicked
    /\ pc = "mine"
    /\ pc' = "publish"
    /\ UNCHANGED << chain, mining, evt, cand, inbox, response_chan, outbox, log,
                    init_pending, panicked, cancelSeen, extraAttempts, input,
                    overtaken, netvars >>

\* block.rs: Block::mine, one pass of its while loop.  The flag is the
\* exclusive borrow of self.mining: nothing else runs until mine returns.
MineStep ==
    /\ ~panicked
    /\ pc = "mine"
    /\ IF mining /\ ~StartsWithZeros(cand.hash, Difficulty)
       THEN /\ cand' = Attempt(cand)
            /\ log' = "Hash"
            /\ extraAttempts' = IF cancelSeen THEN extraAttempts + 1 ELSE extraAttempts
            /\ UNCHANGED pc
       ELSE /\ pc' = "publish"
            /\ UNCHANGED << cand, log, extraAttempts >>
    /\ UNCHANGED << chain, mining, evt, inbox, response_chan, outbox, init_pending,
                    panicked, cancelSeen, input, overtaken, netvars >>

\* p2p.rs: the unmined branch publishes the block mine returned.
PublishMined ==
    /\ ~panicked
    /\ pc = "publish"
    /\ outbox' = Append(outbox, BlockMsg(cand, Self))
    /\ pc' = "append"
    /\ UNCHANGED << chain, mining, evt, cand, inbox, response_chan, log,
                    init_pending, panicked, cancelSeen, extraAttempts, input, overtaken, netvars >>

\* p2p.rs: the unmined branch ends with try_to_add_a_block(block).
AppendMined ==
    /\ ~panicked
    /\ pc = "append"
    /\ IF chain = << >>
       THEN /\ panicked' = TRUE
            /\ log' = "There should be at least one block"
            /\ UNCHANGED << chain, pc, cand >>
       ELSE /\ chain' = try_to_add_a_block(chain, cand)
            /\ log' = try_log(chain, cand, log)
            /\ pc' = "idle"
            /\ cand' = NoBlock
            /\ UNCHANGED panicked
    /\ cancelSeen' = FALSE
    /\ extraAttempts' = 0
    /\ overtaken' = FALSE
    /\ UNCHANGED << mining, evt, inbox, response_chan, outbox, init_pending, input, netvars >>

\* main.rs: EventType::Init, fired once by the start-up timer.
LoopInit ==
    /\ ~panicked
    /\ pc = "idle"
    /\ init_pending
    /\ init_pending' = FALSE
    /\ log' = "connected nodes"
    /\ \E peers \in SUBSET OtherPeers :
          IF peers # {}
          THEN \E last \in peers : outbox' = << LocalChainRequest(last, Self) >>
          ELSE outbox' = << >>
    /\ UNCHANGED << chain, mining, pc, evt, cand, inbox, response_chan, panicked,
                    cancelSeen, extraAttempts, input, overtaken, netvars >>

\* main.rs: EventType::LocalChainResponse, a response taken from the channel
\* and published on the chain topic.
LoopResponse ==
    /\ ~panicked
    /\ pc = "idle"
    /\ response_chan # << >>
    /\ outbox' = << ChainResponse(Head(response_chan).blocks,
                                  Head(response_chan).receiver, Self) >>
    /\ response_chan' = Tail(response_chan)
    /\ log' = NoLine
    /\ UNCHANGED << chain, mining, pc, evt, cand, inbox, init_pending, panicked,
                    cancelSeen, extraAttempts, input, overtaken, netvars >>

\* main.rs: EventType::Input for "ls p", "ls c..." and unknown lines
\* (p2p.rs: handle_print_peers, handle_print_chain).
InputLines == {"ls p", "ls c", "help"}
LoopInput(line) ==
    /\ ~panicked
    /\ pc = "idle"
    /\ outbox' = << >>
    /\ log' = CASE line = "ls p" -> "discovered peers"
                [] line = "ls c" -> "local blockchain"
                [] OTHER -> "Unknown command"
    /\ UNCHANGED << chain, mining, pc, evt, cand, inbox, response_chan,
                    init_pending, panicked, cancelSeen, extraAttempts, input, overtaken, netvars >>

\* What serde_json::from_str makes of the text after "create b": a list of
\* transactions, or an error.
ParsedData ==
    {[ok |-> TRUE, transactions |-> t] : t \in TxLists}
        \cup {[ok |-> FALSE, transactions |-> << >>]}

\* p2p.rs: handle_create_block.
LoopCreateBlock(data, now) ==
    /\ ~panicked
    /\ pc = "idle"
    /\ IF chain = << >>
       THEN /\ panicked' = TRUE
            /\ log' = "there is at least one block"
            /\ outbox' = << >>
       ELSE IF ~data.ok
       THEN /\ panicked' = TRUE
            /\ log' = "can parse transactions"
            /\ outbox' = << >>
       ELSE LET latest_block == chain[Len(chain)]
                block == NewBlock(latest_block.index + 1, latest_block.hash,
                                  data.transactions, now)
            IN  /\ outbox' = << BlockMsg(block, Self) >>
                /\ log' = "broadcasting new block for mining"
                /\ UNCHANGED panicked
    /\ UNCHANGED << chain, mining, pc, evt, cand, inbox, response_chan,
                    init_pending, cancelSeen, extraAttempts, input, overtaken, netvars >>

Next ==
    \/ \E kind \in Kinds : Arrive(kind)
    \/ RecvNet
    \/ InjectChainResponse
    \/ InjectChainRequest
    \/ InjectMinedBlock
    \/ InjectUnminedBlock
    \/ MineStep
    \/ PublishMined
    \/ AppendMined
    \/ LoopInit
    \/ LoopResponse
    \/ \E line \in InputLines : LoopInput(line)
    \/ \E data \in ParsedData, now \in TimeStamps : LoopCreateBlock(data, now)

Spec == Init /\ [][Next]_vars

\* ------------------------------------------------------ the loop, scheduled
\* What the event loop does on its own once an event is pending: tokio's
\* select! takes a buffered message or a queued response, and a handler that
\* has started runs to its end.
NodeStep ==
    \/ RecvNet
    \/ InjectChainResponse
    \/ InjectChainRequest
    \/ InjectMinedBlock
    \/ InjectUnminedBlock
    \/ MineStep
    \/ PublishMined
    \/ AppendMined
    \/ LoopInit
    \/ LoopResponse

\* The node with its loop scheduled fairly; what peers send, and when, and
\* what is typed at the console stay free.
SpecFair == Spec /\ WF_vars(NodeStep)

\* ------------------------------------------------- choose_chain, any input
\* The ChainResponse branch started on any pair of chains: blockchain.chain
\* holds local, the response addressed to this node carries remote.
InitChoose ==
    /\ chain \in RemoteChains
    /\ \E remote \in RemoteChains :
          /\ evt = ChainResponse(remote, Self, "p1")
          /\ input = [kind |-> "choose", local |-> chain, remote |-> remote]
    /\ pc = "inject"
    /\ mining = FALSE
    /\ cand = NoBlock
    /\ inbox = << >>
    /\ response_chan = << >>
    /\ outbox = << >>
    /\ log = NoLine
    /\ init_pending = FALSE
    /\ panicked = FALSE
    /\ cancelSeen = FALSE
    /\ extraAttempts = 0
    /\ overtaken = FALSE
    /\ NoNet

NextChoose == InjectChainResponse

SpecChoose == InitChoose /\ [][NextChoose]_vars

\* ------------------------------------------- announcements of mined blocks
\* Longest chain a node is let to reach by announcements alone.
MaxAnnounced == 4

\* main.rs: select! polls the swarm, which hands a BlockAnnounce that meets the
\* difficulty to inject_event(FloodsubEvent).
RecvAnnounce ==
    /\ ~panicked
    /\ pc = "idle"
    /\ Len(chain) < MaxAnnounced
    /\ \E m \in Payloads("mined") : evt' = m
    /\ pc' = "inject"
    /\ outbox' = << >>
    /\ log' = NoLine
    /\ UNCHANGED << chain, mining, cand, inbox, response_chan, init_pending,
                    panicked, cancelSeen, extraAttempts, input, overtaken, netvars >>

NextAnnounce ==
    \/ RecvAnnounce
    \/ InjectMinedBlock

\* The node from start-up on, handling nothing but mined announcements.
SpecAnnounce == Init /\ [][NextAnnounce]_vars

\* ------------------------------------------------------ a network of nodes
\* The nodes of the network; each runs the program and is connected to, and
\* subscribed with, every other one.
Peers == {"n1", "n2", "n3"}
\* create-block commands issued in the network.
MaxCreated == 2

\* block.rs: Block::mine run to its end on block.
RECURSIVE mine(_, _)
mine(block, mining_flag) ==
    IF mining_flag /\ ~StartsWithZeros(block.hash, Difficulty)
    THEN mine(Attempt(block), mining_flag)
    ELSE block

\* floodsub.publish by node p: the message is queued for every other node, in
\* the order of publication; a node is not sent what it publishes itself.
Publish(boxes, p, m) ==
    [q \in Peers |-> IF q = p THEN boxes[q] ELSE Append(boxes[q], m)]

\* Every node has just been started and holds the same chain.
InitNet ==
    /\ \E now \in TimeStamps : peer_chain = [p \in Peers |-> << GenesisBlock(now) >>]
    /\ peer_mining = [p \in Peers |-> FALSE]
    /\ peer_block = [p \in Peers |-> NoBlock]
    /\ peer_inbox = [p \in Peers |-> << >>]
    /\ created = 0
    /\ chain = << >>
    /\ mining = FALSE
    /\ pc = "idle"
    /\ evt = NoEvent
    /\ cand = NoBlock
    /\ inbox = << >>
    /\ response_chan = << >>
    /\ outbox = << >>
    /\ log = NoLine
    /\ init_pending = FALSE
    /\ panicked = FALSE
    /\ cancelSeen = FALSE
    /\ extraAttempts = 0
    /\ input = NoInput
    /\ overtaken = FALSE

\* p2p.rs: handle_create_block on node p.
NetCreateBlock(p, transactions, now) ==
    /\ created < MaxCreated
    /\ peer_block[p] = NoBlock
    /\ LET latest_block == peer_chain[p][Len(peer_chain[p])]
           block == NewBlock(latest_block.index + 1, latest_block.hash,
                             transactions, now)
       IN  peer_inbox' = Publish(peer_inbox, p, BlockMsg(block, p))
    /\ created' = created + 1
    /\ UNCHANGED << peer_chain, peer_mining, peer_block, nodevars >>

\* p2p.rs: inject_event(FloodsubEvent) on node p, the Block branch when
\* is_mined holds.
NetInjectMinedBlock(p) ==
    /\ peer_block[p] = NoBlock
    /\ peer_inbox[p] # << >>
    /\ is_mined(Head(peer_inbox[p]).block, Difficulty)
    /\ peer_mining' = [peer_mining EXCEPT ![p] = FALSE]
    /\ peer_chain' = [peer_chain EXCEPT
                         ![p] = try_to_add_a_block(@, Head(peer_inbox[p]).block)]
    /\ peer_inbox' = [peer_inbox EXCEPT ![p] = Tail(@)]
    /\ UNCHANGED << peer_block, created, nodevars >>

\* p2p.rs: inject_event(FloodsubEvent) on node p, the Block branch when
\* is_mined fails: the flag is set and Block::mine is entered.
NetInjectUnminedBlock(p) ==
    /\ peer_block[p] = NoBlock
    /\ peer_inbox[p] # << >>
    /\ ~is_mined(Head(peer_inbox[p]).block, Difficulty)
    /\ peer_mining' = [peer_mining EXCEPT ![p] = TRUE]
    /\ peer_block' = [peer_block EXCEPT ![p] = Head(peer_inbox[p]).block]
    /\ peer_inbox' = [peer_inbox EXCEPT ![p] = Tail(@)]
    /\ UNCHANGED << peer_chain, created, nodevars >>

\* p2p.rs: the rest of the unmined branch on node p: mine returns, the block
\* is published and offered to try_to_add_a_block.
NetMineAndAppend(p) ==
    /\ peer_block[p] # NoBlock
    /\ LET block == mine(peer_block[p], peer_mining[p])
       IN  /\ peer_inbox' = Publish(peer_inbox, p, BlockMsg(block, p))
           /\ peer_chain' = [peer_chain EXCEPT ![p] = try_to_add_a_block(@, block)]
    /\ peer_block' = [peer_block EXCEPT ![p] = NoBlock]
    /\ UNCHANGED << peer_mining, created, nodevars >>

NextNet ==
    \/ \E p \in Peers, transactions \in TxLists, now \in TimeStamps :
          NetCreateBlock(p, transactions, now)
    \/ \E p \in Peers : NetInjectMinedBlock(p)
    \/ \E p \in Peers : NetInjectUnminedBlock(p)
    \/ \E p \in Peers : NetMineAndAppend(p)

SpecNet == InitNet /\ [][NextNet]_vars

\* ------------------------------------------------- Block::mine, any input
\* Values of proof_of_work an unmined block can arrive with.
MinePows == 0..2
\* The unmined blocks a peer can announce.
MineBlocks ==
    {b \in [index : Indexes, timestamp : TimeStamps, proof_of_work : MinePows,
            previous_hash : HashStrings, transactions : TxLists, hash : HashStrings] :
        ~is_mined(b, Difficulty)}

\* A node that has just been started receives an unmined announcement: the
\* Block branch is about to run on it.
InitMine ==
    /\ chain \in {<< GenesisBlock(now) >> : now \in TimeStamps}
    /\ \E block \in MineBlocks :
          /\ evt = BlockMsg(block, "p1")
          /\ input = [kind |-> "mine", block |-> block]
    /\ pc = "inject"
    /\ mining = FALSE
    /\ cand = NoBlock
    /\ inbox = << >>
    /\ response_chan = << >>
    /\ outbox = << >>
    /\ log = NoLine
    /\ init_pending = TRUE
    /\ panicked = FALSE
    /\ cancelSeen = FALSE
    /\ extraAttempts = 0
    /\ overtaken = FALSE
    /\ NoNet

NextMine ==
    \/ InjectUnminedBlock
    \/ MineStep
    \/ PublishMined
    \/ AppendMined

SpecMine == InitMine /\ [][NextMine]_vars

\* -------------------------------------------------------------- properties
Tip == chain[Len(chain)]

\* The four checks of validate_block, each on its own.
PreviousHashLinks(block, previous) == block.previous_hash = previous.hash
MeetsDifficulty(block) ==
    /\ Len(block.hash) >= Difficulty
    /\ \A i \in 1..Difficulty : block.hash[i] = 0
IndexContinues(block, previous) == block.index = previous.index + 1
HashIsCanonical(block) == block.hash = generate_block_hash(block)
AllFourChecks(block, previous) ==
    /\ PreviousHashLinks(block, previous)
    /\ MeetsDifficulty(block)
    /\ IndexContinues(block, previous)
    /\ HashIsCanonical(block)

\* The handler is about to validate the announced block against the tip.
ValidatingAnnounce ==
    /\ pc = "inject"
    /\ evt.kind = "block"
    /\ is_mined(evt.block, Difficulty)
    /\ chain # << >>

\* C1: validate_block accepts a block if and only if all four checks pass
\* (previous-hash linkage, difficulty, index continuity, hash recompute).
C1_ValidateBlockIffFourChecks ==
    ValidatingAnnounce => (is_block_valid(evt.block, Tip) <=> AllFourChecks(evt.block, Tip))

\* The handler of the response has returned.
ChooseReturned == input.kind = "choose" /\ pc = "idle"

\* C2: choose_chain returns remote when both chains are valid and remote is
\* strictly longer, local when both are valid otherwise, and the valid chain
\* when exactly one is valid, whatever the lengths.
C2_ChooseChainPolicy ==
    LET local_valid == is_chain_valid(input.local)
        remote_valid == is_chain_valid(input.remote)
    IN  ChooseReturned =>
          /\ (local_valid /\ remote_valid /\ Len(input.remote) > Len(input.local))
                => chain = input.remote
          /\ (local_valid /\ remote_valid /\ Len(input.remote) <= Len(input.local))
                => chain = input.local
          /\ (local_valid /\ ~remote_valid) => chain = input.local
          /\ (~local_valid /\ remote_valid) => chain = input.remote

\* C2 witness: a valid remote replaced a valid, strictly shorter local chain
\* that holds more than the genesis block.
C2_Witness ==
    /\ ChooseReturned
    /\ is_chain_valid(input.local)
    /\ is_chain_valid(input.remote)
    /\ Len(input.local) >= 1
    /\ Len(input.remote) > Len(input.local)
    /\ chain = input.remote
    /\ chain # input.local

\* C3: with both chains invalid the outcome is an error reported to the
\* caller: the local chain is unchanged and the process is not terminated.
C3_BothInvalidKeepsRunning ==
    (/\ input.kind = "choose"
     /\ ~is_chain_valid(input.local)
     /\ ~is_chain_valid(input.remote))
        => (~panicked /\ chain = input.local)

\* The announced block has been offered to try_to_add_a_block and the handler
\* has returned.
AnnounceHandled == ValidatingAnnounce /\ pc' # "inject"
\* The block the node mined itself has been offered to try_to_add_a_block.
MinedHandled == pc = "append" /\ chain # << >> /\ pc' # "append"

\* C4: append_block validates against the current tip only; on success the
\* chain is the old chain with exactly that block at the end, on failure the
\* chain is as before, and in both cases the node keeps running.
C4_AppendValidatesAgainstTip ==
    [][/\ AnnounceHandled =>
            /\ chain' = IF is_block_valid(evt.block, Tip)
                        THEN chain \o << evt.block >>
                        ELSE chain
            /\ ~panicked'
            /\ pc' = "idle"
       /\ MinedHandled =>
            /\ chain' = IF is_block_valid(cand, Tip)
                        THEN chain \o << cand >>
                        ELSE chain
            /\ ~panicked'
            /\ pc' = "idle"]_vars

\* C4 witness: a block was appended earlier and a later announcement has just
\* been rejected; the node is back in its loop.
C4_Witness ==
    /\ Len(chain) >= 2
    /\ log = "Could not add block"
    /\ pc = "idle"
    /\ ~panicked

\* C5: every block at position i > 0 of the local chain has previous_hash
\* equal to the hash of the block before it.
C5_PreviousHashLinked ==
    \A i \in 2..Len(chain) : chain[i].previous_hash = chain[i - 1].hash

\* C5 witness: a chain received in a ChainResponse (its first block is not
\* the node's genesis block) holds a linked block.
C5_Witness ==
    /\ Len(chain) >= 2
    /\ chain[1].hash # EmptyString
    /\ chain[2].previous_hash = chain[1].hash

\* C6: every non-genesis block of the local chain has a hash with at least
\* Difficulty leading '0' digits, and validate_chain accepts the local chain.
C6_ChainMeetsDifficulty ==
    /\ \A i \in 2..Len(chain) : MeetsDifficulty(chain[i])
    /\ is_chain_valid(chain)

\* C6 witness: the tip is a block this node mined itself (at least one hash
\* attempt) and appended.
C6_Witness ==
    /\ Len(chain) >= 2
    /\ pc = "idle"
    /\ Tip.proof_of_work > 0
    /\ Tip.hash = generate_block_hash(Tip)
    /\ MeetsDifficulty(Tip)

\* C7: the local chain starts with the genesis block (index 0) and indices
\* increase by exactly 1 from each position to the next.
C7_IndexContinuity ==
    chain # << >> =>
        /\ chain[1].index = 0
        /\ \A i \in 2..Len(chain) : chain[i].index = chain[i - 1].index + 1

\* C8: every non-genesis block of the local chain has its hash equal to the
\* canonical hash of the block computed with the hash field cleared.
C8_HashesAreCanonical ==
    \A i \in 2..Len(chain) : chain[i].hash = generate_block_hash(chain[i])

\* C9: a BlockAnnounce that already meets the difficulty and arrives while the
\* node is mining interrupts the search: the search does not run on to find
\* its own solution while that announcement waits.
C9_MinedAnnounceInterruptsMining ==
    ~(/\ pc = "publish"
      /\ cancelSeen
      /\ is_mined(cand, Difficulty)
      /\ \E i \in 1..Len(inbox) : inbox[i] = "mined")

\* C10: once the cancellation is raised during the search, mine makes at most
\* one more hash attempt.
C10_CancelStopsWithinOneAttempt == extraAttempts <= 1

\* The unmined branch is about to start a mining operation on the announced
\* block.
StartingToMine ==
    /\ pc = "inject"
    /\ evt.kind = "block"
    /\ ~is_mined(evt.block, Difficulty)

\* C11: at most one mining operation is active in the node, and an unmined
\* announcement that arrives during an active search cancels that search: the
\* search does not run on to its own solution while the new announcement
\* waits, and it has terminated before the new operation starts.
C11_NewAnnounceCancelsMining ==
    /\ StartingToMine => cand = NoBlock
    /\ ~(/\ pc = "publish"
         /\ overtaken
         /\ is_mined(cand, Difficulty)
         /\ \E i \in 1..Len(inbox) : inbox[i] = "unmined")

\* C12: append is idempotent: a block that has been appended is rejected when
\* it is delivered again, so the chain holds every block exactly once and
\* repeated deliveries of one block make the chain grow by one entry at most.
C12_AppendIdempotent ==
    \A i, j \in 1..Len(chain) : chain[i] = chain[j] => i = j

\* C13: the handler of an announcement that does not meet the difficulty
\* mines the received block, then publishes the mined block as a BlockAnnounce,
\* then offers it to try_to_add_a_block: nothing is published or appended
\* during the search, the published block meets the difficulty, and the block
\* offered to the chain is the published one.
C13_MinePublishAppend ==
    [][/\ (StartingToMine /\ pc' # "inject") =>
            /\ pc' = "mine"
            /\ cand' = evt.block
       /\ pc = "mine" =>
            /\ pc' \in {"mine", "publish"}
            /\ outbox' = << >>
            /\ chain' = chain
            /\ pc' = "publish" => cand' = cand
       /\ pc = "publish" =>
            /\ pc' = "append"
            /\ is_mined(cand, Difficulty)
            /\ outbox' = << BlockMsg(cand, Self) >>
            /\ cand' = cand
            /\ chain' = chain
       /\ pc = "append" =>
            /\ pc' = "idle"
            /\ outbox' = << BlockMsg(cand, Self) >>
            /\ chain' = try_to_add_a_block(chain, cand)]_vars

\* C13 witness: the block this node mined (one hash attempt or more) has been
\* published and then appended.
C13_Witness ==
    /\ pc = "idle"
    /\ Len(chain) >= 2
    /\ outbox = << BlockMsg(Tip, Self) >>
    /\ Tip.proof_of_work > 0
    /\ is_mined(Tip, Difficulty)

\* C14: the create-block command builds a block with index = tip.index + 1,
\* previous_hash = tip.hash, the supplied transactions, proof_of_work 0 and an
\* empty hash, publishes it unmined as a BlockAnnounce, and leaves the local
\* chain and the mining flag of the issuing node unchanged.
C14_CreateBlockPublishesUnmined ==
    [][\A data \in ParsedData, now \in TimeStamps :
          (data.ok /\ LoopCreateBlock(data, now)) =>
              /\ Len(outbox') = 1
              /\ outbox'[1].kind = "block"
              /\ outbox'[1].source = Self
              /\ outbox'[1].block.index = Tip.index + 1
              /\ outbox'[1].block.previous_hash = Tip.hash
              /\ outbox'[1].block.transactions = data.transactions
              /\ outbox'[1].block.timestamp = now
              /\ outbox'[1].block.proof_of_work = 0
              /\ outbox'[1].block.hash = EmptyString
              /\ ~is_mined(outbox'[1].block, Difficulty)
              /\ chain' = chain
              /\ mining' = mining
              /\ ~panicked']_vars

\* C14 witness: create-block with one transaction was issued on a chain that
\* holds a mined block, with the mining flag still set by an earlier search.
C14_Witness ==
    /\ pc = "idle"
    /\ log = "broadcasting new block for mining"
    /\ Len(chain) >= 2
    /\ mining
    /\ outbox = << BlockMsg(Block(Tip.index + 1, 0, 0, Tip.hash,
                                  << Transaction("a", "b", 10) >>, EmptyString),
                            Self) >>

\* create-block with one transaction has been handled on a chain that holds
\* only the genesis block.
CreatedOnGenesis ==
    /\ pc = "idle"
    /\ log = "broadcasting new block for mining"
    /\ Len(chain) = 1
    /\ chain[1].index = 0
    /\ chain[1].previous_hash = EmptyString
    /\ Len(outbox) = 1
    /\ Len(outbox[1].block.transactions) = 1

\* The chain holds the genesis block and one block that meets the difficulty,
\* has index 1, links to the genesis block and passes is_block_valid.
GenesisExtended ==
    /\ Len(chain) = 2
    /\ chain[1].index = 0
    /\ MeetsDifficulty(chain[2])
    /\ chain[2].index = 1
    /\ chain[2].previous_hash = chain[1].hash
    /\ is_block_valid(chain[2], chain[1])

\* C15: on a chain that holds only the genesis block, issuing create-block
\* with one transaction yields a block that meets the difficulty, has index 1,
\* has previous_hash equal to the genesis hash and passes validate_block
\* against the genesis block, and the chain length becomes 2 (a process that
\* a later command terminates is let off).
C15_CreateBlockExtendsGenesis == CreatedOnGenesis ~> (GenesisExtended \/ panicked)

\* The handler of a LocalChainRequest runs.
RequestHandled == pc = "inject" /\ evt.kind = "req" /\ pc' # "inject"
\* The event loop takes a response from the internal channel.
ResponseTaken == Len(response_chan') < Len(response_chan)

\* C16: the handler of a request addressed to this node publishes nothing and
\* puts exactly one response on the internal channel, carrying the local chain
\* of that moment and addressed to the peer the request came from; a request
\* addressed to another peer adds no response; the chain is unchanged in both
\* cases; and what the event loop publishes on taking a response from the
\* channel is that response.
C16_RequestAnsweredThroughChannel ==
    [][/\ RequestHandled =>
            /\ outbox' = << >>
            /\ chain' = chain
            /\ response_chan' =
                  IF evt.from_peer_id = Self
                  THEN response_chan \o << [blocks |-> chain, receiver |-> evt.source] >>
                  ELSE response_chan
       /\ ResponseTaken =>
            /\ response_chan' = Tail(response_chan)
            /\ outbox' = << ChainResponse(Head(response_chan).blocks,
                                          Head(response_chan).receiver, Self) >>
            /\ chain' = chain]_vars

\* C16 witness: the response to a peer's request, carrying a chain of two
\* blocks, has been published by the event loop.
C16_Witness ==
    /\ pc = "idle"
    /\ response_chan = << >>
    /\ Len(outbox) = 1
    /\ outbox[1].kind = "resp"
    /\ outbox[1].receiver \in OtherPeers
    /\ outbox[1].blocks = chain
    /\ Len(chain) >= 2

\* Every published announcement has been delivered and handled, and no node
\* is mining.
NetQuiet ==
    \A p \in Peers : peer_inbox[p] = << >> /\ peer_block[p] = NoBlock

\* C17: when nodes that hold the same chain race to mine announced unmined
\* blocks, then once every published BlockAnnounce has been delivered to every
\* node and all mining has finished, all nodes hold the same local chain.
C17_PeersConverge ==
    NetQuiet => \A p, q \in Peers : peer_chain[p] = peer_chain[q]

\* C18: mining changes only proof_of_work and hash of the candidate: the
\* search starts on the block as it arrived, each attempt adds exactly 1 to
\* proof_of_work and sets hash to the canonical hash of the block, and index,
\* timestamp, previous_hash and transactions of the mined block are those of
\* the candidate.
C18_MiningChangesPowAndHash ==
    [][/\ (StartingToMine /\ pc' = "mine") => cand' = input.block
       /\ (pc = "mine" /\ cand' # cand) =>
            /\ cand'.proof_of_work = cand.proof_of_work + 1
            /\ cand'.hash = generate_block_hash(cand')
       /\ pc' \in {"mine", "publish", "append"} =>
            /\ cand'.index = input.block.index
            /\ cand'.timestamp = input.block.timestamp
            /\ cand'.previous_hash = input.block.previous_hash
            /\ cand'.transactions = input.block.transactions
            /\ cand'.proof_of_work >= input.block.proof_of_work
       /\ pc = "publish" => cand' = cand]_vars

\* C18 witness: a candidate that arrived with proof_of_work 1 has been mined
\* in two attempts or more.
C18_Witness ==
    /\ input.kind = "mine"
    /\ pc = "publish"
    /\ input.block.proof_of_work = 1
    /\ cand.proof_of_work >= 3
    /\ is_mined(cand, Difficulty)

\* C19: across every event the node handles the local chain is never empty
\* and never gets shorter: a step leaves the chain as it is, appends exactly
\* one block at its end, or, handling a ChainResponse addressed to this node,
\* replaces it with the remote chain, which is strictly longer.
C19_ChainNeverShrinks ==
    [][/\ chain # << >>
       /\ chain' # << >>
       /\ \/ chain' = chain
          \/ /\ Len(chain') = Len(chain) + 1
             /\ SubSeq(chain', 1, Len(chain)) = chain
          \/ /\ pc = "inject"
             /\ evt.kind = "resp"
             /\ evt.receiver = Self
             /\ chain' = evt.blocks
             /\ Len(chain') > Len(chain)]_vars

\* C19 witness: the chain built from the genesis block has been replaced by a
\* longer chain a peer sent, and the node is back in its loop.
C19_Witness ==
    /\ pc = "idle"
    /\ ~panicked
    /\ Len(chain) >= 2
    /\ chain[1].hash # EmptyString
    /\ is_chain_valid(chain)

\* C20: in every reachable state the local chain passes is_chain_valid, so
\* whatever remote chain a ChainResponse carries, choose_chain does not reach
\* its 'Both chains are invalid' branch.
C20_LocalChainAlwaysValid ==
    /\ is_chain_valid(chain)
    /\ (pc = "inject" /\ evt.kind = "resp") => ~choose_chain(chain, evt.blocks).panicked
    /\ log # "Both chains are invalid"

\* C20 witness: the handler is about to call choose_chain with a local chain
\* of two blocks and a remote chain that fails is_chain_valid.
C20_Witness ==
    /\ pc = "inject"
    /\ evt.kind = "resp"
    /\ evt.receiver = Self
    /\ Len(chain) >= 2
    /\ Len(evt.blocks) >= 2
    /\ ~is_chain_valid(evt.blocks)

====
